---- MODULE Spec2Model ----
(***************************************************************************)
(* A model of c99extend's dynamic string library (strings/string_utf8.c):  *)
(* the String struct {data, len, cap}, the C heap its data pointers point  *)
(* into, the buffer operations, the UTF-8 validator and the two text       *)
(* normalizers.                                                            *)
(*                                                                         *)
(* A pointer is a block number (NULL is 0).  A block of the heap holds its *)
(* bytes in mem (mem[k+1] is the byte at offset k); a byte the program     *)
(* never wrote is Uninit: its value is indeterminate and is only chosen    *)
(* when something reads it.  A write or a read outside a block is recorded *)
(* in fault, and nothing runs after a fault (the behaviour is undefined).  *)
(***************************************************************************)
EXTENDS Integers, Sequences, FiniteSets, TLC

VARIABLES strs, heap, fault, last, prev, vin, vout

vars == <<strs, heap, fault, last, prev, vin, vout>>

(***************************************************************************)
(* Bounds of the model.                                                    *)
(***************************************************************************)
\* The largest allocation a step of SpecGrow requests.
MaxCap == 4
\* The largest allocation a step of Spec requests.
ApiMaxCap == 3
\* The byte order marks and the bytes after them in a C string of SpecNorm.
MaxBoms == 2
MaxBody == 3
\* The longest input of SpecVal.
MaxValLen == 4
\* Blocks of the heap (addresses malloc can return).
MaxBlocks == 3

(***************************************************************************)
(* Bytes.                                                                  *)
(***************************************************************************)
NULL == 0
Uninit == 256
NUL == 0
LF == 10
CR == 13
BOM0 == 239
BOM1 == 187
BOM2 == 191
LetterA == 97

Min(a, b) == IF a < b THEN a ELSE b
Max(a, b) == IF a > b THEN a ELSE b

(***************************************************************************)
(* The C heap: malloc, realloc, free.                                      *)
(***************************************************************************)
Blocks == 1..MaxBlocks

NoBlock == [live |-> FALSE, mem |-> <<>>]

FreeIds(H) == {p \in DOMAIN H : ~H[p].live}

NewId(H) == CHOOSE p \in FreeIds(H) : \A q \in FreeIds(H) : p <= q

\* n unwritten bytes.
RECURSIVE Fill(_)
Fill(n) == IF n <= 0 THEN <<>> ELSE Append(Fill(n - 1), Uninit)

\* malloc(n): a fresh block of n unwritten bytes, or NULL.
malloc(H, n, how) ==
    IF how = "fail" \/ FreeIds(H) = {}
    THEN [p |-> NULL, H |-> H]
    ELSE [p |-> NewId(H),
          H |-> [H EXCEPT ![NewId(H)] = [live |-> TRUE, mem |-> Fill(n)]]]

\* free(p): releasing a block that is not live is a double free.
free(H, p) ==
    IF H[p].live
    THEN [H |-> [H EXCEPT ![p] = NoBlock], fault |-> "none"]
    ELSE [H |-> H, fault |-> "double_free"]

\* The old bytes realloc keeps, then unwritten ones.
Grown(m, n) == IF n <= Len(m) THEN SubSeq(m, 1, n) ELSE m \o Fill(n - Len(m))

\* realloc(p, n): NULL and the old block untouched on failure; the block
\* resized in place, or moved to a fresh block and the old one released.
realloc(H, p, n, how) ==
    IF p = NULL THEN malloc(H, n, how)
    ELSE IF how = "fail" THEN [p |-> NULL, H |-> H]
    ELSE IF how = "move" /\ FreeIds(H) # {}
    THEN [p |-> NewId(H),
          H |-> [H EXCEPT ![NewId(H)] = [live |-> TRUE, mem |-> Grown(H[p].mem, n)],
                          ![p] = NoBlock]]
    ELSE [p |-> p, H |-> [H EXCEPT ![p].mem = Grown(H[p].mem, n)]]

(***************************************************************************)
(* The String struct and its operations.                                   *)
(***************************************************************************)
str_init == [data |-> NULL, len |-> 0, cap |-> 0]

\* The bytes of the block s.data points to.
Mem(s, H) == IF s.data = NULL THEN <<>> ELSE H[s.data].mem

\* The logical bytes of s: offsets 0 .. len-1.
Content(s, H) == SubSeq(Mem(s, H), 1, Min(s.len, Len(Mem(s, H))))

\* The NULL char pointer, as an argument of str_from_cstr.
NullCstr == <<Uninit, NULL>>

\* A C string literal: its bytes and the terminator.
Literal(bytes) == bytes \o <<NUL>>

RECURSIVE strlenFrom(_, _)
strlenFrom(m, k) ==
    IF k > Len(m) THEN -1
    ELSE IF m[k] = NUL THEN k - 1
    ELSE strlenFrom(m, k + 1)

\* strlen over the memory m a char pointer points to; -1 when no terminator
\* lies inside the object (the scan runs off its end).
strlen(m) == strlenFrom(m, 1)

\* An unsigned char.
Byte == 0..255

\* A scan that finds no zero inside the memory it scans.
RunOff == <<>>

\* The scans of the memory m for its terminator that find one, from index
\* k on: an unwritten byte reads as any value of Byte, and the bytes behind
\* the first zero are not read (they stay as they are).
RECURSIVE ReadsFrom(_, _)
ReadsFrom(m, k) ==
    IF k > Len(m) THEN {}
    ELSE LET seen == IF m[k] = Uninit THEN Byte ELSE {m[k]}
             rest == ReadsFrom(m, k + 1)
         IN  (IF NUL \in seen THEN {<<NUL>> \o SubSeq(m, k + 1, Len(m))} ELSE {})
             \cup {<<b>> \o r : b \in seen \ {NUL}, r \in rest}

\* Every byte of m can read as non-zero: the scan can leave the memory.
RunsOff(m) == \A k \in 1..Len(m) : m[k] # NUL

\* What strlen and memcpy can read of the C string at m.
Reads(m) == ReadsFrom(m, 1) \cup (IF RunsOff(m) THEN {RunOff} ELSE {})

\* str_from_cstr(cstr), cstr pointing to the (read) memory m.
str_from_cstr(H, m, how) ==
    IF m = NullCstr THEN [s |-> str_init, H |-> H, fault |-> "none"]
    ELSE IF strlen(m) < 0 THEN [s |-> str_init, H |-> H, fault |-> "oob_read"]
    ELSE LET length == strlen(m)
             a == malloc(H, length + 1, how)
         IN  IF a.p # NULL
             THEN [s |-> [data |-> a.p, len |-> length, cap |-> length + 1],
                   H |-> [a.H EXCEPT ![a.p].mem = SubSeq(m, 1, length + 1)],
                   fault |-> "none"]
             ELSE [s |-> [data |-> NULL, len |-> 0, cap |-> length + 1],
                   H |-> a.H, fault |-> "none"]

\* str_free without the store data = NULL: the released pointer is kept.
str_free_KeepsData(S, H, i) ==
    LET f == IF S[i].data # NULL THEN free(H, S[i].data)
                                 ELSE [H |-> H, fault |-> "none"]
    IN  [S |-> [S EXCEPT ![i].len = 0, ![i].cap = 0], H |-> f.H, fault |-> f.fault]

\* str_free(&S[i])
str_free(S, H, i) ==
    LET f == IF S[i].data # NULL THEN free(H, S[i].data)
                                 ELSE [H |-> H, fault |-> "none"]
    IN  [S |-> [S EXCEPT ![i] = str_init], H |-> f.H, fault |-> f.fault]

\* str_data(s): the memory the returned pointer points to ("" for no data).
str_data(s, H) == IF s.data = NULL THEN Literal(<<>>) ELSE H[s.data].mem

\* str_reserve(&S[i], new_cap)
str_reserve(S, H, i, new_cap, how) ==
    IF new_cap > S[i].cap
    THEN LET r == realloc(H, S[i].data, new_cap, how)
         IN  IF r.p # NULL
             THEN [S |-> [S EXCEPT ![i].data = r.p, ![i].cap = new_cap],
                   H |-> r.H, fault |-> "none"]
             ELSE [S |-> S, H |-> r.H, fault |-> "none"]
    ELSE [S |-> S, H |-> H, fault |-> "none"]

\* The store m[off] = b into block p; outside the block it is a fault and
\* the block is left as it is.
Store(H, p, off, b) ==
    IF off < Len(H[p].mem) THEN [H EXCEPT ![p].mem[off + 1] = b] ELSE H

InBlock(H, p, off) == off < Len(H[p].mem)

\* str_push_back(&S[i], c)
PushBackNewCap(s) == IF s.cap = 0 THEN 2 ELSE s.cap * 2

PushBackGrows(s) == s.len + 1 >= s.cap

str_push_back(S, H, i, c, how) ==
    LET r == IF PushBackGrows(S[i])
             THEN str_reserve(S, H, i, PushBackNewCap(S[i]), how)
             ELSE [S |-> S, H |-> H, fault |-> "none"]
        s == r.S[i]
    IN  IF s.data # NULL
        THEN [S |-> [r.S EXCEPT ![i].len = s.len + 1],
              H |-> Store(Store(r.H, s.data, s.len, c), s.data, s.len + 1, NUL),
              fault |-> IF InBlock(r.H, s.data, s.len + 1) THEN "none"
                                                           ELSE "oob_write"]
        ELSE r

\* memcpy(dst + doff, src, n) with src the start of block q, copied at once
\* (the regions apart, or a copy that reads before it overwrites).
CopyAtOnce(H, p, doff, q, n) ==
    LET dst == H[p].mem
        src == H[q].mem
        copied == SubSeq(src, 1, Min(Min(n, Len(src)), Max(Len(dst) - doff, 0)))
    IN  [H EXCEPT ![p].mem = SubSeq(dst, 1, Min(doff, Len(dst))) \o copied
                             \o SubSeq(dst, doff + Len(copied) + 1, Len(dst))]

\* The same copy made byte by byte in ascending order inside one block: a
\* byte already overwritten is read back.
RECURSIVE CopyAscending(_, _, _, _)
CopyAscending(m, doff, k, n) ==
    IF k >= n \/ doff + k >= Len(m) THEN m
    ELSE CopyAscending([m EXCEPT ![doff + k + 1] = m[k + 1]], doff, k + 1, n)

\* The regions [doff, doff+n) and [0, n) of one block overlap (and differ).
Overlaps(p, doff, q, n) == p = q /\ doff > 0 /\ doff < n

\* memcpy(dst + doff, src, n): dst is block p, src the start of block q.
\* Overlapping regions are undefined behaviour: dir picks the outcome.
memcpy(H, p, doff, q, n, dir) ==
    [H |-> IF Overlaps(p, doff, q, n) /\ dir = "ascending"
           THEN [H EXCEPT ![p].mem = CopyAscending(H[p].mem, doff, 0, n)]
           ELSE CopyAtOnce(H, p, doff, q, n),
     fault |-> IF n > Len(H[q].mem) THEN "oob_read"
               ELSE IF doff + n > Len(H[p].mem) THEN "oob_write"
               ELSE "none"]

ConcatNeeded(S, d, j) == S[d].len + S[j].len + 1

ConcatGrows(S, d, j) == S[j].data # NULL /\ ConcatNeeded(S, d, j) > S[d].cap

\* str_concat(&S[d], &S[j]); d = j is the self-concatenation.
str_concat(S, H, d, j, how, dir) ==
    IF S[j].data = NULL THEN [S |-> S, H |-> H, fault |-> "none"]
    ELSE LET r == IF ConcatNeeded(S, d, j) > S[d].cap
                  THEN str_reserve(S, H, d, ConcatNeeded(S, d, j), how)
                  ELSE [S |-> S, H |-> H, fault |-> "none"]
             dest == r.S[d]
             src == r.S[j]
         IN  IF dest.data # NULL
             THEN LET c == memcpy(r.H, dest.data, dest.len, src.data, src.len + 1, dir)
                  IN  [S |-> [r.S EXCEPT ![d].len = dest.len + src.len],
                       H |-> c.H, fault |-> c.fault]
             ELSE r

\* The memory str_plus hands to str_from_cstr when one side has no data.
PlusCstr(S, H, i, j) ==
    IF S[i].data = NULL THEN str_data(S[j], H)
    ELSE IF S[j].data = NULL THEN str_data(S[i], H)
    ELSE Literal(<<>>)

\* str_plus(&S[i], &S[j]); m is what the read of PlusCstr saw.
str_plus(S, H, i, j, how, m) ==
    IF S[i].data = NULL \/ S[j].data = NULL THEN str_from_cstr(H, m, how)
    ELSE LET total_len == S[i].len + S[j].len
             a == malloc(H, total_len + 1, how)
         IN  IF a.p # NULL
             THEN LET c1 == memcpy(a.H, a.p, 0, S[i].data, S[i].len, "at_once")
                      c2 == memcpy(c1.H, a.p, S[i].len, S[j].data, S[j].len + 1, "at_once")
                  IN  [s |-> [data |-> a.p, len |-> total_len, cap |-> total_len + 1],
                       H |-> c2.H,
                       fault |-> IF c1.fault # "none" THEN c1.fault ELSE c2.fault]
             ELSE [s |-> [data |-> NULL, len |-> 0, cap |-> total_len + 1],
                   H |-> a.H, fault |-> "none"]

(***************************************************************************)
(* UTF-8 validation (RFC 3629).                                            *)
(***************************************************************************)
\* The continuation count the lead byte b0 asks for; -1 for an invalid lead.
ExtraBytes(b0) ==
    IF b0 <= 127 THEN 0
    ELSE IF b0 >= 194 /\ b0 <= 223 THEN 1
    ELSE IF b0 >= 224 /\ b0 <= 239 THEN 2
    ELSE IF b0 >= 240 /\ b0 <= 244 THEN 3
    ELSE -1

\* The codepoint bits of the lead byte: b0, b0 & 0x1F, b0 & 0x0F, b0 & 0x07.
LeadBits(b0) ==
    IF b0 <= 127 THEN b0
    ELSE IF b0 >= 194 /\ b0 <= 223 THEN b0 % 32
    ELSE IF b0 >= 224 /\ b0 <= 239 THEN b0 % 16
    ELSE b0 % 8

\* (bx & 0xC0) == 0x80
IsContinuation(bx) == bx \div 64 = 2

\* The loop over the continuation bytes data[i+1+j], j < extraBytes: the
\* codepoint, or -1 at a byte that is no continuation byte.  The uint32_t
\* codepoint holds at most 3 + 3 * 6 = 21 bits, so it never wraps.
RECURSIVE ReadContinuation(_, _, _, _, _)
ReadContinuation(data, i, j, extraBytes, codepoint) ==
    IF j >= extraBytes THEN codepoint
    ELSE LET bx == data[i + 1 + j + 1]
         IN  IF ~IsContinuation(bx) THEN -1
             ELSE ReadContinuation(data, i, j + 1, extraBytes,
                                   codepoint * 64 + (bx % 64))

\* The switch on extraBytes without the surrogate check.
CodepointOk_NoSurrogate(extraBytes, codepoint) ==
    IF extraBytes = 1 THEN ~(codepoint < 128)
    ELSE IF extraBytes = 2 THEN ~(codepoint < 2048)
    ELSE IF extraBytes = 3
    THEN ~(codepoint < 65536) /\ ~(codepoint > 1114111)
    ELSE TRUE

\* The switch on extraBytes: overlong encodings, surrogates, out of range.
CodepointOk(extraBytes, codepoint) ==
    IF extraBytes = 1 THEN ~(codepoint < 128)
    ELSE IF extraBytes = 2
    THEN ~(codepoint < 2048) /\ ~(codepoint >= 55296 /\ codepoint <= 57343)
    ELSE IF extraBytes = 3
    THEN ~(codepoint < 65536) /\ ~(codepoint > 1114111)
    ELSE TRUE

\* The while loop of utf8_validate from offset i.
RECURSIVE ValidateFrom(_, _, _)
ValidateFrom(data, length, i) ==
    IF ~(i < length) THEN TRUE
    ELSE LET b0 == data[i + 1]
             extraBytes == ExtraBytes(b0)
         IN  IF extraBytes < 0 THEN FALSE
             ELSE IF i + extraBytes >= length THEN FALSE
             ELSE LET codepoint == ReadContinuation(data, i, 0, extraBytes, LeadBits(b0))
                  IN  IF codepoint < 0 THEN FALSE
                      ELSE IF ~CodepointOk(extraBytes, codepoint) THEN FALSE
                      ELSE ValidateFrom(data, length, i + extraBytes + 1)

\* utf8_validate(data, length); isnull says data is the NULL pointer.
utf8_validate(isnull, data, length) ==
    IF isnull THEN TRUE ELSE ValidateFrom(data, length, 0)

\* str_validate_utf8(&s)
str_validate_utf8(s, H) == utf8_validate(s.data = NULL, Mem(s, H), s.len)

(***************************************************************************)
(* The text normalizers.                                                   *)
(***************************************************************************)
\* A test of the first byte only.
HasBom_FirstByte(s, H) == Mem(s, H)[1] = BOM0

\* The first three bytes of s are EF BB BF.
HasBom(s, H) ==
    /\ Mem(s, H)[1] = BOM0
    /\ Mem(s, H)[2] = BOM1
    /\ Mem(s, H)[3] = BOM2

\* No shift at all: the bytes stay where they are.
memmove_NoShift(m, shift, n) == m

\* memmove(data, data + shift, n)
memmove(m, shift, n) == SubSeq(m, shift + 1, shift + n) \o SubSeq(m, n + 1, Len(m))

\* str_remove_utf8_bom(&S[i])
str_remove_utf8_bom(S, H, i) ==
    IF S[i].data = NULL \/ S[i].len < 3 THEN [S |-> S, H |-> H, ret |-> FALSE]
    ELSE IF HasBom(S[i], H)
    THEN LET new_len == S[i].len - 3
             p == S[i].data
         IN  [S |-> [S EXCEPT ![i].len = new_len],
              H |-> [H EXCEPT ![p].mem =
                        [memmove(H[p].mem, 3, new_len) EXCEPT ![new_len + 1] = NUL]],
              ret |-> TRUE]
    ELSE [S |-> S, H |-> H, ret |-> FALSE]

\* The while loop of str_strip_crlf on the block m with length len.
RECURSIVE StripLoop(_, _)
StripLoop(m, len) ==
    IF ~(len > 0) THEN [mem |-> m, len |-> len]
    ELSE LET last_char == m[len]
         IN  IF last_char = LF \/ last_char = CR
             THEN StripLoop([m EXCEPT ![len] = NUL], len - 1)
             ELSE [mem |-> m, len |-> len]

\* str_strip_crlf(&S[i])
str_strip_crlf(S, H, i) ==
    IF S[i].data = NULL \/ S[i].len = 0 THEN [S |-> S, H |-> H]
    ELSE LET r == StripLoop(H[S[i].data].mem, S[i].len)
         IN  [S |-> [S EXCEPT ![i].len = r.len],
              H |-> [H EXCEPT ![S[i].data].mem = r.mem]]

(***************************************************************************)
(* The calls a program makes, as actions.  strs holds the program's String *)
(* variables, last the call made last (with the state it was made in) and  *)
(* prev the call before it.                                                *)
(***************************************************************************)
Slots == {1, 2}

NoCall ==
    [op |-> "none", slot |-> 0, src |-> 0, arg |-> <<>>, how |-> "none",
     dir |-> "at_once", ret |-> FALSE, S |-> [i \in Slots |-> str_init],
     H |-> [p \in Blocks |-> NoBlock]]

Call(op, i, j, arg, how, dir, ret) ==
    [op |-> op, slot |-> i, src |-> j, arg |-> arg, how |-> how, dir |-> dir,
     ret |-> ret, S |-> strs, H |-> heap]

\* A heap with the bytes of its blocks dropped.
Liveness(H) == [p \in DOMAIN H |-> [live |-> H[p].live, mem |-> <<>>]]

\* One call: the state it leaves and what is observed of it.  track says
\* what: the call with the Strings and the live blocks it was made on
\* ("call"), the bytes of that heap too ("bytes"), the call before ("prev").
Step(track, rec, S2, H2, f2) ==
    /\ fault = "none"
    /\ strs' = S2
    /\ heap' = H2
    /\ fault' = f2
    /\ last' = IF "call" \notin track THEN NoCall
               ELSE IF "bytes" \notin track THEN [rec EXCEPT !.H = Liveness(rec.H)]
               ELSE rec
    /\ prev' = IF "prev" \in track THEN last ELSE NoCall
    /\ UNCHANGED <<vin, vout>>

\* The outcomes of an allocation a call requests ("none": it requests none).
Outcomes(requested, p) ==
    IF ~requested THEN {"none"}
    ELSE IF p = NULL THEN {"fail", "ok"}
    ELSE {"fail", "ok", "move"}

\* s = str_init();
StrInit(track, i) ==
    /\ strs[i].data = NULL
    /\ Step(track, Call("init", i, 0, <<>>, "none", "at_once", FALSE),
            [strs EXCEPT ![i] = str_init], heap, "none")

\* s = str_from_cstr(cstr); for a variable that owns no storage.
FromCstr(track, i, cstrs, hows) ==
    /\ strs[i].data = NULL
    /\ \E c \in cstrs, how \in hows :
          /\ how \in Outcomes(c # NullCstr, NULL)
          /\ LET m == IF c = NullCstr THEN c ELSE Literal(c)
                 r == str_from_cstr(heap, m, how)
             IN  Step(track, Call("from_cstr", i, 0, c, how, "at_once", FALSE),
                      [strs EXCEPT ![i] = r.s], r.H, r.fault)

\* str_free(&s);
Free(track, i) ==
    LET r == str_free(strs, heap, i)
    IN  Step(track, Call("free", i, 0, <<>>, "none", "at_once", FALSE),
             r.S, r.H, r.fault)

\* str_reserve(&s, n);
Reserve(track, i, caps, hows) ==
    \E n \in caps, how \in hows :
        /\ how \in Outcomes(n > strs[i].cap, strs[i].data)
        /\ LET r == str_reserve(strs, heap, i, n, how)
           IN  Step(track, Call("reserve", i, 0, <<n>>, how, "at_once", FALSE),
                    r.S, r.H, r.fault)

\* str_push_back(&s, c);
PushBack(track, i, bytes, hows, lim) ==
    \E c \in bytes, how \in hows :
        /\ PushBackGrows(strs[i]) => PushBackNewCap(strs[i]) <= lim
        /\ how \in Outcomes(PushBackGrows(strs[i]), strs[i].data)
        /\ LET r == str_push_back(strs, heap, i, c, how)
           IN  Step(track, Call("push_back", i, 0, <<c>>, how, "at_once", FALSE),
                    r.S, r.H, r.fault)

\* The outcomes of the memcpy of str_concat: two when its regions overlap.
ConcatDirs(d, j) ==
    IF d = j /\ strs[d].data # NULL /\ strs[d].len > 0
    THEN {"at_once", "ascending"} ELSE {"at_once"}

\* str_concat(&dest, &src);
Concat(track, d, j, hows, lim) ==
    \E how \in hows, dir \in ConcatDirs(d, j) :
        /\ ConcatGrows(strs, d, j) => ConcatNeeded(strs, d, j) <= lim
        /\ how \in Outcomes(ConcatGrows(strs, d, j), strs[d].data)
        /\ LET r == str_concat(strs, heap, d, j, how, dir)
           IN  Step(track, Call("concat", d, j, <<>>, how, dir, FALSE),
                    r.S, r.H, r.fault)

\* t = str_plus(&s1, &s2); for a variable t that owns no storage.
Plus(track, k, i, j, hows, lim) ==
    /\ strs[k].data = NULL
    /\ strs[i].len + strs[j].len + 1 <= lim
    /\ \E how \in hows, m \in Reads(PlusCstr(strs, heap, i, j)) :
          /\ how \in {"fail", "ok"}
          /\ LET r == str_plus(strs, heap, i, j, how, m)
             IN  Step(track, Call("plus", k, 0, <<i, j>>, how, "at_once", FALSE),
                      [strs EXCEPT ![k] = r.s], r.H, r.fault)

\* str_remove_utf8_bom(&s);
RemoveBom(track, i) ==
    LET r == str_remove_utf8_bom(strs, heap, i)
    IN  Step(track, Call("remove_bom", i, 0, <<>>, "none", "at_once", r.ret),
             r.S, r.H, "none")

\* str_strip_crlf(&s);
StripCrlf(track, i) ==
    LET r == str_strip_crlf(strs, heap, i)
    IN  Step(track, Call("strip_crlf", i, 0, <<>>, "none", "at_once", FALSE),
             r.S, r.H, "none")

(***************************************************************************)
(* Spec: a program with two String variables that calls the whole API in   *)
(* any order, every allocation free to fail.                               *)
(***************************************************************************)
AllHows == {"none", "fail", "ok", "move"}

ApiCstrs == {NullCstr, <<>>, <<LetterA, LF>>}

ApiBytes == {NUL}
\* The capacities str_reserve is asked for.
ApiCaps == {1}

Init ==
    /\ strs = [i \in Slots |-> str_init]
    /\ heap = [p \in Blocks |-> NoBlock]
    /\ fault = "none"
    /\ last = NoCall
    /\ prev = NoCall
    /\ vin = <<>>
    /\ vout = "none"

Next ==
    \/ \E i \in Slots : StrInit({}, i)
    \/ \E i \in Slots : FromCstr({}, i, ApiCstrs, AllHows)
    \/ \E i \in Slots : Free({"call", "prev"}, i)
    \/ \E i \in Slots : Reserve({}, i, ApiCaps, AllHows)
    \/ \E i \in Slots : PushBack({}, i, ApiBytes, AllHows, ApiMaxCap)
    \/ \E d \in Slots, j \in Slots : Concat({}, d, j, AllHows, ApiMaxCap)
    \/ \E k \in Slots, i \in Slots, j \in Slots :
            Plus({}, k, i, j, AllHows, ApiMaxCap)
    \/ \E i \in Slots : RemoveBom({}, i)
    \/ \E i \in Slots : StripCrlf({}, i)

Spec == Init /\ [][Next]_vars

(***************************************************************************)
(* SpecGrow: the growing operations on one String variable (1), every call *)
(* on it observed, with a second variable (2) to concatenate from.         *)
(***************************************************************************)
GrowCstrs == {<<>>, <<LetterA>>}

GrowBytes == {NUL, LF}

GrowHows == {"none", "fail", "ok"}

NextGrow ==
    \/ FromCstr({"call", "bytes"}, 1, GrowCstrs, GrowHows)
    \/ FromCstr({}, 2, GrowCstrs, GrowHows)
    \/ Free({"call", "bytes"}, 1)
    \/ Reserve({"call", "bytes"}, 1, 1..MaxCap, GrowHows)
    \/ Reserve({}, 2, 1..MaxCap, GrowHows)
    \/ PushBack({"call", "bytes"}, 1, GrowBytes, GrowHows, MaxCap)
    \/ \E j \in Slots : Concat({"call", "bytes"}, 1, j, GrowHows, MaxCap)

SpecGrow == Init /\ [][NextGrow]_vars

(***************************************************************************)
(* SpecNorm: one String variable built from a C string (up to MaxBoms byte *)
(* order marks, then up to MaxBody bytes), given slack, and normalized;     *)
(* each normalizer call is observed with the call before it.               *)
(***************************************************************************)
NormBytes == {BOM0, BOM1, BOM2, LetterA, LF, CR}

RECURSIVE SeqsUpTo(_, _)
SeqsUpTo(bytes, n) ==
    IF n = 0 THEN {<<>>}
    ELSE SeqsUpTo(bytes, n - 1)
         \cup {Append(s, b) : s \in {x \in SeqsUpTo(bytes, n - 1) : Len(x) = n - 1},
                              b \in bytes}

RECURSIVE Boms(_)
Boms(k) == IF k = 0 THEN <<>> ELSE <<BOM0, BOM1, BOM2>> \o Boms(k - 1)

NormCstrs == {Boms(k) \o body : k \in 0..MaxBoms, body \in SeqsUpTo(NormBytes, MaxBody)}

NormCap == 3 * MaxBoms + MaxBody + 2

NormHows == {"none", "ok"}

Observed == {"call", "bytes", "prev"}

NextNorm ==
    \/ FromCstr({}, 1, NormCstrs, NormHows)
    \/ Reserve({}, 1, {1, NormCap}, NormHows)
    \/ RemoveBom(Observed, 1)
    \/ StripCrlf(Observed, 1)

SpecNorm == Init /\ [][NextNorm]_vars

(***************************************************************************)
(* SpecAssoc: Strings a, b, c (1, 2, 3) built by the API, then             *)
(* ab = a + b, (ab) + c, bc = b + c and a + (bc) in variables 4 to 7.      *)
(***************************************************************************)
AssocSlots == 1..7

AssocCstrs == {<<>>, <<LetterA>>}

AssocHows == {"none", "ok"}

InitAssoc ==
    /\ strs = [i \in AssocSlots |-> str_init]
    /\ heap = [p \in AssocSlots |-> NoBlock]
    /\ fault = "none"
    /\ last = NoCall
    /\ prev = NoCall
    /\ vin = <<>>
    /\ vout = "none"

NextAssoc ==
    \/ \E i \in 1..3 : last = NoCall /\ FromCstr({}, i, AssocCstrs, AssocHows)
    \/ \E i \in 1..3 : last = NoCall /\ PushBack({}, i, {NUL}, AssocHows, MaxCap)
    \/ last = NoCall /\ Plus({"call"}, 4, 1, 2, AssocHows, 2 * MaxCap)
    \/ last.slot = 4 /\ Plus({"call"}, 5, 4, 3, AssocHows, 3 * MaxCap)
    \/ last.slot = 5 /\ Plus({"call"}, 6, 2, 3, AssocHows, 2 * MaxCap)
    \/ last.slot = 6 /\ Plus({"call"}, 7, 1, 6, AssocHows, 3 * MaxCap)

SpecAssoc == InitAssoc /\ [][NextAssoc]_vars

(***************************************************************************)
(* SpecVal: utf8_validate on a byte sequence (or the NULL pointer); vin is *)
(* the input and vout the result.                                          *)
(***************************************************************************)
\* The bytes at the edges of the classes RFC 3629 tells apart.
ValBytes == {0, 127, 128, 143, 144, 159, 160, 191, 193, 194, 223, 224, 237,
             239, 240, 244, 245}

\* The arguments before a byte is supplied: the NULL pointer, or no bytes.
ValInputs == {[null |-> TRUE, bytes |-> <<>>], [null |-> FALSE, bytes |-> <<>>]}

InitVal ==
    /\ strs = [i \in Slots |-> str_init]
    /\ heap = [p \in Blocks |-> NoBlock]
    /\ fault = "none"
    /\ last = NoCall
    /\ prev = NoCall
    /\ vin \in ValInputs
    /\ vout = "none"

\* The caller makes the data to validate one byte longer.
Supply ==
    /\ vout = "none"
    /\ ~vin.null
    /\ Len(vin.bytes) < MaxValLen
    /\ \E b \in ValBytes : vin' = [vin EXCEPT !.bytes = Append(@, b)]
    /\ UNCHANGED <<strs, heap, fault, last, prev, vout>>

\* ok = utf8_validate(data, length);
Validate ==
    /\ vout = "none"
    /\ vout' = IF utf8_validate(vin.null, vin.bytes, Len(vin.bytes))
               THEN "valid" ELSE "invalid"
    /\ UNCHANGED <<strs, heap, fault, last, prev, vin>>

NextVal == Supply \/ Validate

SpecVal == InitVal /\ [][NextVal]_vars

(***************************************************************************)
(* What the claims speak of.                                               *)
(***************************************************************************)
\* The String variable the last call was made on, before and after it.
Pre == last.S[last.slot]
Post == strs[last.slot]
PreMem == Mem(Pre, last.H)
PostMem == Mem(Post, heap)
\* The source of the last str_concat, before it.
SrcPre == last.S[last.src]
SrcPreMem == Mem(SrcPre, last.H)

\* The byte at offset off of the memory m is b.
ByteIs(m, off, b) == off < Len(m) /\ m[off + 1] = b

\* The invariant of one Buffer.
BufferOk(s, H) ==
    IF s.data = NULL THEN s.len = 0 /\ s.cap = 0
    ELSE s.cap > s.len /\ ByteIs(Mem(s, H), s.len, NUL)

(* C1: in every state the API calls reach, allocations free to fail, every *)
(* Buffer without data has length 0 and capacity 0, and every Buffer with  *)
(* data has capacity > length and a zero byte at offset length.            *)
C1_BufferInvariant == \A i \in Slots : BufferOk(strs[i], heap)

(* C10: no block is referenced by two Buffers at once, no block is         *)
(* released twice, and str_free of a Buffer that owns nothing releases     *)
(* nothing and leaves it with no data, length 0 and capacity 0.            *)
C10_ExclusiveOwnership ==
    /\ \A i \in Slots, j \in Slots :
          i # j /\ strs[i].data # NULL => strs[i].data # strs[j].data
    /\ \A i \in Slots : strs[i].data # NULL => heap[strs[i].data].live
    /\ fault # "double_free"
    /\ last.op = "free" => Post = str_init
    /\ last.op = "free" /\ Pre.data = NULL => Liveness(heap) = last.H
    /\ last.op = "free" /\ Pre.data # NULL =>
          Liveness(heap) = [last.H EXCEPT ![Pre.data].live = FALSE]

\* str_free called twice in a row on a Buffer that had storage, while the
\* other Buffer holds storage of its own.
C10_Witness ==
    /\ last.op = "free" /\ prev.op = "free" /\ last.slot = prev.slot
    /\ prev.S[prev.slot].data # NULL
    /\ \E j \in Slots : j # last.slot /\ strs[j].data # NULL /\ strs[j].len > 0

(* C2: when the allocation str_reserve, str_push_back or str_concat asks   *)
(* for fails, the destination's bytes, length and capacity are what they   *)
(* were and nothing is written outside its storage.                        *)
C2_FailureChangesNothing ==
    last.op \in {"reserve", "push_back", "concat"} /\ last.how = "fail" =>
        /\ Post = Pre
        /\ PostMem = PreMem
        /\ fault # "oob_write"

\* What C6 promises of str_push_back(c).
AppendResult ==
    /\ Post.len = Pre.len + 1
    /\ ByteIs(PostMem, Pre.len, last.arg[1])
    /\ Len(PostMem) >= Pre.len
    /\ SubSeq(PostMem, 1, Pre.len) = SubSeq(PreMem, 1, Pre.len)
    /\ Post.cap >= Pre.cap
    /\ Pre.len + 1 >= Pre.cap =>
          Post.cap = IF Pre.cap = 0 THEN 2 ELSE 2 * Pre.cap

(* C6: after str_push_back on any Buffer (no storage, or storage with      *)
(* length < capacity) the length is one more, the byte is at the old       *)
(* length, the old bytes are kept, the capacity is not smaller, and a      *)
(* needed growth gives capacity 2 from 0 and twice the old otherwise.      *)
C6_AppendAlways ==
    last.op = "push_back" /\ (Pre.data = NULL \/ Pre.len < Pre.cap) => AppendResult

(* C9: after str_concat(dest, src) with src holding storage and the        *)
(* allocation given, dest holds its old bytes then src's, its length is    *)
(* the sum, the byte at offset length is zero and the capacity is the      *)
(* larger of the old one and the sum plus 1, also when src is dest; with   *)
(* src holding no storage dest is unchanged.                               *)
C9_ConcatResult ==
    last.op = "concat" =>
        IF SrcPre.data = NULL THEN Post = Pre /\ PostMem = PreMem
        ELSE last.how # "fail" =>
            /\ Post.len = Pre.len + SrcPre.len
            /\ Content(Post, heap) = Content(Pre, last.H) \o Content(SrcPre, last.H)
            /\ ByteIs(PostMem, Post.len, NUL)
            /\ Post.cap = Max(Pre.cap, Pre.len + SrcPre.len + 1)

\* A continuation byte: 10xxxxxx.
IsCont(b) == b \in 128..191

\* One well-formed RFC 3629 encoding, as C3 lists them.
WellFormedUnit(u) ==
    \/ Len(u) = 1 /\ u[1] \in 0..127
    \/ Len(u) = 2 /\ u[1] \in 194..223 /\ IsCont(u[2])
    \/ /\ Len(u) = 3 /\ u[1] \in 224..239 /\ IsCont(u[2]) /\ IsCont(u[3])
       /\ LET cp == (u[1] - 224) * 4096 + (u[2] - 128) * 64 + (u[3] - 128)
          IN  cp >= 2048 /\ cp \notin 55296..57343
    \/ /\ Len(u) = 4 /\ u[1] \in 240..244
       /\ IsCont(u[2]) /\ IsCont(u[3]) /\ IsCont(u[4])
       /\ LET cp == (u[1] - 240) * 262144 + (u[2] - 128) * 4096
                    + (u[3] - 128) * 64 + (u[4] - 128)
          IN  cp \in 65536..1114111

\* A concatenation of well-formed encodings.
RECURSIVE WellFormed(_)
WellFormed(bytes) ==
    \/ bytes = <<>>
    \/ \E k \in 1..Min(4, Len(bytes)) :
          /\ WellFormedUnit(SubSeq(bytes, 1, k))
          /\ WellFormed(SubSeq(bytes, k + 1, Len(bytes)))

(* C3: utf8_validate returns true exactly for the NULL pointer and for the *)
(* byte sequences that are concatenations of well-formed RFC 3629          *)
(* encodings (the empty sequence among them).                              *)
C3_ValidatorCorrect ==
    vout # "none" => (vout = "valid" <=> (vin.null \/ WellFormed(vin.bytes)))

\* The validator has refused the encoding of the surrogate U+D800 that
\* follows an ASCII byte.
C3_Witness == vout = "invalid" /\ vin.bytes = <<127, 237, 160, 128>>

\* The bytes start with EF BB BF.
StartsWithBom(c) == Len(c) >= 3 /\ c[1] = 239 /\ c[2] = 187 /\ c[3] = 191

(* C7: str_remove_utf8_bom on a Buffer of length >= 3 that starts with     *)
(* EF BB BF returns true and leaves the old content without its first      *)
(* three bytes, the length 3 less, a zero byte at offset length and the    *)
(* capacity as it was; in every other case it returns false and data,      *)
(* length and capacity are unchanged.                                      *)
C7_RemoveBomResult ==
    last.op = "remove_bom" =>
        IF StartsWithBom(Content(Pre, last.H))
        THEN /\ last.ret
             /\ Post.len = Pre.len - 3
             /\ Content(Post, heap) = SubSeq(Content(Pre, last.H), 4, Pre.len)
             /\ ByteIs(PostMem, Post.len, NUL)
             /\ Post.cap = Pre.cap
             /\ Post.data = Pre.data
        ELSE ~last.ret /\ Post = Pre /\ PostMem = PreMem

\* A byte order mark has been removed from in front of other bytes, in a
\* Buffer with slack.
C7_Witness ==
    /\ last.op = "remove_bom" /\ last.ret
    /\ Pre.len > 3 /\ Pre.cap > Pre.len + 1
    /\ Content(Post, heap) = <<LetterA, LF>>

\* The call before the last one, and the Buffer it was made on.
FirstPre == prev.S[prev.slot]
Twice == last.op = "remove_bom" /\ prev.op = "remove_bom"

(* C4 as claimed: a second str_remove_utf8_bom in succession leaves the    *)
(* length and bytes the first left, and returns false, whatever the        *)
(* content.                                                                *)
C4_BomIdempotent ==
    Twice => ~last.ret /\ Post = Pre /\ PostMem = PreMem

(* C4 as amended: the same, for content that does not start with two       *)
(* EF BB BF in a row.                                                      *)
C4_BomIdempotentOnce ==
    Twice /\ ~StartsWithBom(SubSeq(Content(FirstPre, prev.H), 4, FirstPre.len))
    => ~last.ret /\ Post = Pre /\ PostMem = PreMem

\* The second of two calls on content with one byte order mark in front.
C4_Witness ==
    /\ Twice /\ prev.ret /\ ~last.ret
    /\ Content(FirstPre, prev.H) = <<239, 187, 191, LetterA, LetterA, LetterA>>
    /\ Content(Post, heap) = <<LetterA, LetterA, LetterA>>

\* How many bytes of c str_strip_crlf is to keep: the longest prefix that
\* is empty or does not end in CR or LF.
KeptLen(c) ==
    CHOOSE n \in 0..Len(c) :
        /\ n = 0 \/ c[n] \notin {10, 13}
        /\ \A k \in (n + 1)..Len(c) : c[k] \in {10, 13}

(* C8: str_strip_crlf leaves the longest prefix of the old content that is *)
(* empty or does not end in CR or LF, with that length, a zero byte at     *)
(* offset length and the capacity as it was; a Buffer with no storage or   *)
(* of length 0 is unchanged.                                               *)
C8_StripCrlfResult ==
    last.op = "strip_crlf" =>
        /\ Post.len = KeptLen(Content(Pre, last.H))
        /\ Content(Post, heap) = SubSeq(Content(Pre, last.H), 1, Post.len)
        /\ Post.cap = Pre.cap
        /\ Post.data = Pre.data
        /\ Post.data # NULL => ByteIs(PostMem, Post.len, NUL)
        /\ Pre.data = NULL \/ Pre.len = 0 => Post = Pre /\ PostMem = PreMem

(* C5: with a, b, c built by the API and every allocation given,           *)
(* (a + b) + c and a + (b + c) have the same length and bytes: those of a, *)
(* then b, then c.                                                         *)
C5_PlusAssociative ==
    last.op = "plus" /\ last.slot = 7 /\ fault = "none" =>
        LET abc == Content(strs[1], heap) \o Content(strs[2], heap)
                   \o Content(strs[3], heap)
        IN  /\ strs[5].len = strs[7].len
            /\ Content(strs[5], heap) = abc
            /\ Content(strs[7], heap) = abc

====
